---- MODULE Spec2Model ----
(***************************************************************************)
(* Model of speechtoipa/pipeline.py: the language-code resolver, the       *)
(* phonemization adapter and the transcribe_audio_to_ipa orchestrator.     *)
(* Strings are sequences of one-character strings, so that lower(),        *)
(* strip(), replace(), split() and join() are computed, not assumed.       *)
(***************************************************************************)
EXTENDS Integers, Sequences, FiniteSets, TLC

\* ---------------------------------------------------------------- bounds
\* Longest language hint handed to the resolver on its own.
MaxHintLen == 4
\* Longest text handed to _phonemize_text on its own.
MaxTextLen == 3
\* Most raw segments the recognizer yields in one run.
MaxSegs == 2

\* ------------------------------------------------------- Python values
\* Python's None, distinct from every string (no string holds this element).
None == <<"<None>">>

\* Python truthiness of an Optional[str]: None and "" are falsy.
Truthy(s) == s # None /\ s # <<>>

\* The Python expression `a or b` on Optional[str] operands.
PyOr(a, b) == IF Truthy(a) THEN a ELSE b

\* Characters str.strip() removes when called without arguments.
Whitespace == {" ", "\t", "\n"}

UpperLetters == <<"A","B","C","D","E","F","G","H","I","J","K","L","M",
                  "N","O","P","Q","R","S","T","U","V","W","X","Y","Z">>
LowerLetters == <<"a","b","c","d","e","f","g","h","i","j","k","l","m",
                  "n","o","p","q","r","s","t","u","v","w","x","y","z">>

\* str.lower() on one character.
LowerChar(c) ==
    IF \E i \in 1..26 : UpperLetters[i] = c
    THEN LowerLetters[CHOOSE i \in 1..26 : UpperLetters[i] = c]
    ELSE c

RECURSIVE Lower(_)
\* str.lower()
Lower(s) == IF s = <<>> THEN <<>> ELSE <<LowerChar(Head(s))>> \o Lower(Tail(s))

RECURSIVE LStrip(_)
LStrip(s) ==
    IF s = <<>> THEN <<>>
    ELSE IF Head(s) \in Whitespace THEN LStrip(Tail(s)) ELSE s

RECURSIVE RStrip(_)
RStrip(s) ==
    IF s = <<>> THEN <<>>
    ELSE IF s[Len(s)] \in Whitespace THEN RStrip(SubSeq(s, 1, Len(s) - 1)) ELSE s

\* str.strip()
Strip(s) == RStrip(LStrip(s))

RECURSIVE Replace(_, _, _)
\* str.replace(old, new) for one-character old and new.
Replace(s, old, new) ==
    IF s = <<>> THEN <<>>
    ELSE <<IF Head(s) = old THEN new ELSE Head(s)>> \o Replace(Tail(s), old, new)

\* `sub in s` for a one-character sub.
Contains(s, c) == \E i \in 1..Len(s) : s[i] = c

RECURSIVE SplitFirst(_, _)
\* s.split(sep, 1)[0]: the part of s before the first sep (all of s without one).
SplitFirst(s, sep) ==
    IF s = <<>> THEN <<>>
    ELSE IF Head(s) = sep THEN <<>>
    ELSE <<Head(s)>> \o SplitFirst(Tail(s), sep)

RECURSIVE Join_NoSep(_, _)
\* join() that forgets the separator.
Join_NoSep(sep, parts) ==
    IF parts = <<>> THEN <<>> ELSE parts[1] \o Join_NoSep(sep, Tail(parts))

RECURSIVE Join(_, _)
\* sep.join(parts)
Join(sep, parts) ==
    IF parts = <<>> THEN <<>>
    ELSE IF Len(parts) = 1 THEN parts[1]
    ELSE parts[1] \o sep \o Join(sep, Tail(parts))

\* ------------------------------------------------------ language table
_ESPEAK_LANG_MAP ==
    (<<"a", "f">> :> <<"a", "f">>)
    @@ (<<"a", "r">> :> <<"a", "r">>)
    @@ (<<"b", "n">> :> <<"b", "n">>)
    @@ (<<"c", "s">> :> <<"c", "s">>)
    @@ (<<"d", "a">> :> <<"d", "a">>)
    @@ (<<"d", "e">> :> <<"d", "e">>)
    @@ (<<"e", "l">> :> <<"e", "l">>)
    @@ (<<"e", "n">> :> <<"e", "n", "-", "u", "s">>)
    @@ (<<"e", "n", "-", "u", "s">> :> <<"e", "n", "-", "u", "s">>)
    @@ (<<"e", "n", "-", "g", "b">> :> <<"e", "n", "-", "g", "b">>)
    @@ (<<"e", "s">> :> <<"e", "s">>)
    @@ (<<"f", "i">> :> <<"f", "i">>)
    @@ (<<"f", "r">> :> <<"f", "r", "-", "f", "r">>)
    @@ (<<"g", "u">> :> <<"g", "u">>)
    @@ (<<"h", "i">> :> <<"h", "i">>)
    @@ (<<"h", "u">> :> <<"h", "u">>)
    @@ (<<"i", "d">> :> <<"i", "d">>)
    @@ (<<"i", "t">> :> <<"i", "t">>)
    @@ (<<"j", "a">> :> <<"j", "a">>)
    @@ (<<"k", "o">> :> <<"k", "o">>)
    @@ (<<"m", "r">> :> <<"m", "r">>)
    @@ (<<"n", "b">> :> <<"n", "b">>)
    @@ (<<"n", "l">> :> <<"n", "l">>)
    @@ (<<"p", "l">> :> <<"p", "l">>)
    @@ (<<"p", "t">> :> <<"p", "t", "-", "b", "r">>)
    @@ (<<"p", "t", "-", "b", "r">> :> <<"p", "t", "-", "b", "r">>)
    @@ (<<"p", "t", "-", "p", "t">> :> <<"p", "t">>)
    @@ (<<"r", "o">> :> <<"r", "o">>)
    @@ (<<"r", "u">> :> <<"r", "u">>)
    @@ (<<"s", "v">> :> <<"s", "v">>)
    @@ (<<"t", "a">> :> <<"t", "a">>)
    @@ (<<"t", "e">> :> <<"t", "e">>)
    @@ (<<"t", "h">> :> <<"t", "h">>)
    @@ (<<"t", "r">> :> <<"t", "r">>)
    @@ (<<"u", "k">> :> <<"u", "k">>)
    @@ (<<"u", "r">> :> <<"u", "r">>)
    @@ (<<"v", "i">> :> <<"v", "i">>)
    @@ (<<"z", "h">> :> <<"z", "h">>)
    @@ (<<"z", "h", "-", "c", "n">> :> <<"z", "h">>)
    @@ (<<"z", "h", "-", "t", "w">> :> <<"z", "h">>)

\* _normalise_lang_code: None stays None, else lower, strip, "_" -> "-".
_normalise_lang_code(code) ==
    IF code = None THEN None
    ELSE Replace(Strip(Lower(code)), "_", "-")

\* The resolver without the check that the normalised hint is non-empty.
_resolve_espeak_language_NoEmptyCheck(language_hint) ==
    IF ~Truthy(language_hint) THEN <<"e", "n", "-", "u", "s">>
    ELSE LET normalised == _normalise_lang_code(language_hint)
             base == SplitFirst(normalised, "-")
         IN  IF normalised \in DOMAIN _ESPEAK_LANG_MAP
             THEN _ESPEAK_LANG_MAP[normalised]
             ELSE IF Contains(normalised, "-") /\ base \in DOMAIN _ESPEAK_LANG_MAP
                  THEN _ESPEAK_LANG_MAP[base]
             ELSE normalised

\* The resolver with the base-subtag fallback tried before the exact match.
_resolve_espeak_language_BaseFirst(language_hint) ==
    IF ~Truthy(language_hint) THEN <<"e", "n", "-", "u", "s">>
    ELSE LET normalised == _normalise_lang_code(language_hint)
             base == SplitFirst(normalised, "-")
         IN  IF ~Truthy(normalised) THEN <<"e", "n", "-", "u", "s">>
             ELSE IF Contains(normalised, "-") /\ base \in DOMAIN _ESPEAK_LANG_MAP
                  THEN _ESPEAK_LANG_MAP[base]
             ELSE IF normalised \in DOMAIN _ESPEAK_LANG_MAP
                  THEN _ESPEAK_LANG_MAP[normalised]
             ELSE normalised

\* _resolve_espeak_language: Whisper language hint -> espeak-ng code.
_resolve_espeak_language(language_hint) ==
    IF ~Truthy(language_hint) THEN <<"e", "n", "-", "u", "s">>
    ELSE LET normalised == _normalise_lang_code(language_hint)
             base == SplitFirst(normalised, "-")
         IN  IF ~Truthy(normalised) THEN <<"e", "n", "-", "u", "s">>
             ELSE IF normalised \in DOMAIN _ESPEAK_LANG_MAP
                  THEN _ESPEAK_LANG_MAP[normalised]
             ELSE IF Contains(normalised, "-") /\ base \in DOMAIN _ESPEAK_LANG_MAP
                  THEN _ESPEAK_LANG_MAP[base]
             ELSE normalised

\* ------------------------------------------------- phonemization adapter
\* What one invocation of the external phonemize() can do: return an IPA
\* string or raise RuntimeError. The engine is opaque, so its output is a choice.
IpaOuts == {<<"i">>, <<"j">>}
BackendOutcomes ==
    {[ok |-> TRUE, out |-> o] : o \in IpaOuts} \cup {[ok |-> FALSE, out |-> <<>>]}

NoError == [type |-> "none", names |-> <<>>, cause |-> "none"]

\* _phonemize_text that swallows the backend's failure and returns "".
_phonemize_text_Swallow(text, ipa_language, outcome, calls) ==
    IF Strip(text) = <<>>
    THEN [raised |-> FALSE, ret |-> <<>>, error |-> NoError, calls |-> calls]
    ELSE [raised |-> FALSE, ret |-> outcome.out, error |-> NoError,
          calls |-> Append(calls, [text |-> text, language |-> ipa_language,
                                   ok |-> outcome.ok, out |-> outcome.out])]

\* _phonemize_text without the early return on a blank text.
_phonemize_text_NoBlankCheck(text, ipa_language, outcome, calls) ==
    LET call == [text |-> text, language |-> ipa_language,
                 ok |-> outcome.ok, out |-> outcome.out]
    IN  IF outcome.ok
        THEN [raised |-> FALSE, ret |-> outcome.out, error |-> NoError,
              calls |-> Append(calls, call)]
        ELSE [raised |-> TRUE, ret |-> <<>>,
              error |-> [type |-> "RuntimeError", names |-> ipa_language,
                         cause |-> "RuntimeError"],
              calls |-> Append(calls, call)]

\* _phonemize_text(text, ipa_language), given what the backend does if invoked
\* and the log of backend invocations so far. raised: the call ends in `error`.
_phonemize_text(text, ipa_language, outcome, calls) ==
    IF Strip(text) = <<>>
    THEN [raised |-> FALSE, ret |-> <<>>, error |-> NoError, calls |-> calls]
    ELSE LET call == [text |-> text, language |-> ipa_language,
                      ok |-> outcome.ok, out |-> outcome.out]
         IN  IF outcome.ok
             THEN [raised |-> FALSE, ret |-> outcome.out, error |-> NoError,
                   calls |-> Append(calls, call)]
             ELSE [raised |-> TRUE, ret |-> <<>>,
                   error |-> [type |-> "RuntimeError", names |-> ipa_language,
                              cause |-> "RuntimeError"],
                   calls |-> Append(calls, call)]

\* ----------------------------------------------------------- input sets
AudioPaths == {<<"a", ".", "w", "a", "v">>}
ModelSizes == {<<"small">>}
LanguageArgs == {None, <<>>, <<"p", "t">>}
IpaLanguageArgs == {None, <<>>, <<"P", "T", "_", "x">>}
Devices == {<<"cpu">>, <<"cuda">>}
ComputeTypeArgs == {None, <<"float16">>}
\* info.language as the recognizer may report it.
DetectedLanguages ==
    {None, <<"p", "t", "-", "p", "t">>, <<" ", "_">>}
\* Raw segments the recognizer may yield.
RawSegments ==
    { [text |-> <<>>, start |-> 0, end |-> 1],
      [text |-> <<" ">>, start |-> 1, end |-> 2],
      [text |-> <<" ", "a", " ">>, start |-> 2, end |-> 4],
      [text |-> <<"b", " ", "c">>, start |-> 4, end |-> 5] }

RECURSIVE SeqsUpTo(_, _)
\* All sequences over S of length at most n.
SeqsUpTo(S, n) ==
    IF n = 0 THEN {<<>>}
    ELSE LET r == SeqsUpTo(S, n - 1)
         IN  r \cup {Append(s, c) : s \in {x \in r : Len(x) = n - 1}, c \in S}

HintChars == {"p", "t", "P", "-", "_", " ", "x"}
\* Hints of the spec's examples, beyond the bounded ones.
ExtraHints ==
    { <<"D", "E", "_", "a", "t">>, <<"x", "x", "-", "y", "y">>,
      <<"z", "h", "-", "t", "w">>, <<"e", "n">>, <<"E", "N", "_", "g", "b">>,
      <<"p", "t", "-", "b", "r">>, <<"p", "t", "-", "p", "t">>,
      <<" ", "f", "r", "\t">> }
Hints == {None} \cup SeqsUpTo(HintChars, MaxHintLen) \cup ExtraHints
TextChars == {"a", " "}
Texts == SeqsUpTo(TextChars, MaxTextLen)
IpaCodes == {<<"e", "n", "-", "u", "s">>, <<"p", "t">>}

\* ---------------------------------------------------------------- state
VARIABLES
    pc,                  \* position in transcribe_audio_to_ipa
    audio_path, path_exists, model_size, language, ipa_language,
    device, compute_type, vad_filter,          \* the call's arguments
    model_inits,         \* WhisperModel(...) instantiations, with arguments
    transcribe_calls,    \* model.transcribe(...) invocations, with arguments
    backend_calls,       \* phonemize(...) invocations, with outcome
    pulls,               \* next() calls made on segments_iter
    produced,            \* raw segments segments_iter has yielded, in order
    exhausted,           \* segments_iter has raised StopIteration
    info,                \* <<run info>> once transcribe has returned
    recognised_language, ipa_code,
    segment,             \* <<loop variable>> while the loop body runs
    segments, full_text_parts,
    returned,            \* <<TranscriptionResult>> once returned
    raised,              \* <<error>> once the call has failed
    fn_arg, fn_lang, fn_ret, fn_raised, fn_calls   \* a direct call of a helper

argvars == <<audio_path, path_exists, model_size, language, ipa_language,
             device, compute_type, vad_filter>>
spyvars == <<model_inits, transcribe_calls, backend_calls, pulls, produced, exhausted>>
localvars == <<info, recognised_language, ipa_code, segment, segments, full_text_parts>>
outvars == <<returned, raised>>
fnvars == <<fn_arg, fn_lang, fn_ret, fn_raised, fn_calls>>
vars == <<pc, argvars, spyvars, localvars, outvars, fnvars>>

Init ==
    /\ pc = "idle"
    /\ audio_path = None /\ path_exists = FALSE /\ model_size = None
    /\ language = None /\ ipa_language = None
    /\ device = None /\ compute_type = None /\ vad_filter = TRUE
    /\ model_inits = <<>> /\ transcribe_calls = <<>> /\ backend_calls = <<>>
    /\ pulls = 0 /\ produced = <<>> /\ exhausted = FALSE
    /\ info = <<>> /\ recognised_language = None /\ ipa_code = None
    /\ segment = <<>> /\ segments = <<>> /\ full_text_parts = <<>>
    /\ returned = <<>> /\ raised = <<>>
    /\ fn_arg = None /\ fn_lang = None /\ fn_ret = None /\ fn_raised = FALSE
    /\ fn_calls = <<>>

\* ----------------------------------------------- transcribe_audio_to_ipa
\* The detected language taking precedence over the caller's override.
RecognisedLanguage_DetectedFirst(language_arg, detected) ==
    PyOr(detected, PyOr(language_arg, <<>>))

\* recognised_language = language or info.language or ""
RecognisedLanguage(language_arg, detected) ==
    PyOr(language_arg, PyOr(detected, <<>>))

\* ipa_code = ipa_language or _resolve_espeak_language(recognised_language)
IpaCode(ipa_language_arg, recognised) ==
    PyOr(ipa_language_arg, _resolve_espeak_language(recognised))

\* The SegmentResult with its timestamps swapped.
SegmentResult_Swapped(start, end, text, ipa) ==
    [start |-> end, end |-> start, text |-> text, ipa |-> ipa]

\* The SegmentResult the loop body builds.
SegmentResult(start, end, text, ipa) ==
    [start |-> start, end |-> end, text |-> text, ipa |-> ipa]

\* full_ipa built by joining the segments' ipa, with no phonemization of its own.
FullIpa_JoinSegments(full_text, code, outcome, calls) ==
    [raised |-> FALSE,
     ret |-> Join(<<" ">>, [i \in 1..Len(segments) |-> segments[i].ipa]),
     error |-> NoError, calls |-> calls]

\* full_ipa = _phonemize_text(full_text, ipa_code) if full_text else ""
FullIpa(full_text, code, outcome, calls) ==
    IF full_text # <<>>
    THEN _phonemize_text(full_text, code, outcome, calls)
    ELSE [raised |-> FALSE, ret |-> <<>>, error |-> NoError, calls |-> calls]

\* Enter without the existence check: a missing path reaches the model load.
Enter_NoPathCheck ==
    /\ pc = "idle"
    /\ \E p \in AudioPaths, e \in BOOLEAN, ms \in ModelSizes, l \in LanguageArgs,
          il \in IpaLanguageArgs, d \in Devices, ct \in ComputeTypeArgs,
          vad \in BOOLEAN :
          /\ audio_path' = p /\ path_exists' = e /\ model_size' = ms
          /\ language' = l /\ ipa_language' = il /\ device' = d
          /\ vad_filter' = vad
          /\ compute_type' =
                IF ct = None
                THEN (IF d = <<"cpu">> THEN <<"int8">> ELSE <<"auto">>)
                ELSE ct
          /\ pc' = "load"
    /\ UNCHANGED <<spyvars, localvars, outvars, fnvars>>

\* The call is made; the path is checked and the compute type chosen.
Enter ==
    /\ pc = "idle"
    /\ \E p \in AudioPaths, e \in BOOLEAN, ms \in ModelSizes, l \in LanguageArgs,
          il \in IpaLanguageArgs, d \in Devices, ct \in ComputeTypeArgs,
          vad \in BOOLEAN :
          /\ audio_path' = p /\ path_exists' = e /\ model_size' = ms
          /\ language' = l /\ ipa_language' = il /\ device' = d
          /\ vad_filter' = vad
          /\ IF ~e
             THEN /\ raised' = <<[type |-> "FileNotFoundError", names |-> p,
                                  cause |-> "none"]>>
                  /\ compute_type' = ct
                  /\ pc' = "failed"
             ELSE /\ raised' = raised
                  /\ compute_type' =
                        IF ct = None
                        THEN (IF d = <<"cpu">> THEN <<"int8">> ELSE <<"auto">>)
                        ELSE ct
                  /\ pc' = "load"
    /\ UNCHANGED <<spyvars, localvars, returned, fnvars>>

\* model = WhisperModel(model_size, device=device, compute_type=compute_type);
\* a failure of the engine propagates unchanged.
LoadModel ==
    /\ pc = "load"
    /\ model_inits' = Append(model_inits,
          [model_size |-> model_size, device |-> device, compute_type |-> compute_type])
    /\ \E loads \in BOOLEAN :
          IF loads
          THEN pc' = "transcribe" /\ raised' = raised
          ELSE /\ pc' = "failed"
               /\ raised' = <<[type |-> "InferenceError", names |-> <<>>, cause |-> "none"]>>
    /\ UNCHANGED <<argvars, transcribe_calls, backend_calls, pulls, produced,
                   exhausted, localvars, returned, fnvars>>

\* segments_iter, info = model.transcribe(...); then the language and the
\* IPA code are settled.
Transcribe ==
    /\ pc = "transcribe"
    /\ transcribe_calls' = Append(transcribe_calls,
          [audio |-> audio_path, language |-> language, beam_size |-> 1, best_of |-> 1,
           vad_filter |-> vad_filter, temperature |-> 0])
    /\ \/ /\ \E detected \in DetectedLanguages :
                /\ info' = <<[language |-> detected, language_probability |-> 95,
                              duration |-> 2]>>
                /\ recognised_language' = RecognisedLanguage(language, detected)
          /\ ipa_code' = IpaCode(ipa_language, recognised_language')
          /\ pc' = "loop"
          /\ UNCHANGED raised
       \/ /\ pc' = "failed"
          /\ raised' = <<[type |-> "InferenceError", names |-> <<>>, cause |-> "none"]>>
          /\ UNCHANGED <<info, recognised_language, ipa_code>>
    /\ UNCHANGED <<argvars, model_inits, backend_calls, pulls, produced, exhausted,
                   segment, segments, full_text_parts, returned, fnvars>>

\* `for segment in segments_iter`: one next() on the lazy sequence, which
\* yields a raw segment, is exhausted, or fails while decoding.
NextSegment ==
    /\ pc = "loop"
    /\ pulls' = pulls + 1
    /\ \/ /\ Len(produced) < MaxSegs
          /\ \E raw \in RawSegments :
                /\ produced' = Append(produced, raw)
                /\ segment' = <<raw>>
          /\ pc' = "body"
          /\ UNCHANGED <<exhausted, raised>>
       \/ /\ exhausted' = TRUE
          /\ segment' = <<>>
          /\ pc' = "join"
          /\ UNCHANGED <<produced, raised>>
       \/ /\ pc' = "failed"
          /\ raised' = <<[type |-> "InferenceError", names |-> <<>>, cause |-> "none"]>>
          /\ UNCHANGED <<produced, exhausted, segment>>
    /\ UNCHANGED <<argvars, model_inits, transcribe_calls, backend_calls, info,
                   recognised_language, ipa_code, segments, full_text_parts,
                   returned, fnvars>>

\* The loop body: trim, skip an empty text, else phonemize and record.
LoopBody ==
    /\ pc = "body"
    /\ LET segment_text == Strip(segment[1].text)
       IN  IF segment_text = <<>>
           THEN /\ pc' = "loop"
                /\ UNCHANGED <<backend_calls, segments, full_text_parts, raised>>
           ELSE /\ full_text_parts' = Append(full_text_parts, segment_text)
                /\ \E outcome \in BackendOutcomes :
                      LET r == _phonemize_text(segment_text, ipa_code, outcome,
                                               backend_calls)
                      IN  /\ backend_calls' = r.calls
                          /\ IF r.raised
                             THEN /\ raised' = <<r.error>>
                                  /\ pc' = "failed"
                                  /\ UNCHANGED segments
                             ELSE /\ segments' = Append(segments,
                                        SegmentResult(segment[1].start,
                                            segment[1].end, segment_text, r.ret))
                                  /\ pc' = "loop"
                                  /\ UNCHANGED raised
    /\ UNCHANGED <<argvars, model_inits, transcribe_calls, pulls, produced, exhausted,
                   info, recognised_language, ipa_code, segment, returned, fnvars>>

\* Finish reachable from the loop head too: the loop left before exhaustion.
Finish_Early ==
    /\ pc \in {"join", "loop"}
    /\ LET full_text == Strip(Join(<<" ">>, full_text_parts))
       IN  \E outcome \in BackendOutcomes :
              LET r == FullIpa(full_text, ipa_code, outcome, backend_calls)
              IN  /\ backend_calls' = r.calls
                  /\ IF r.raised
                     THEN /\ raised' = <<r.error>>
                          /\ pc' = "failed"
                          /\ UNCHANGED returned
                     ELSE /\ returned' = <<[audio_path |-> audio_path,
                                 text |-> full_text, ipa |-> r.ret,
                                 segments |-> segments,
                                 language |-> recognised_language,
                                 language_confidence |-> info[1].language_probability,
                                 duration |-> info[1].duration,
                                 model_size |-> model_size,
                                 ipa_language |-> ipa_code]>>
                          /\ pc' = "done"
                          /\ UNCHANGED raised
    /\ UNCHANGED <<argvars, model_inits, transcribe_calls, pulls, produced, exhausted,
                   localvars, fnvars>>

\* After the loop: join, phonemize the whole text, build the result.
Finish ==
    /\ pc = "join"
    /\ LET full_text == Strip(Join(<<" ">>, full_text_parts))
       IN  \E outcome \in BackendOutcomes :
              LET r == FullIpa(full_text, ipa_code, outcome, backend_calls)
              IN  /\ backend_calls' = r.calls
                  /\ IF r.raised
                     THEN /\ raised' = <<r.error>>
                          /\ pc' = "failed"
                          /\ UNCHANGED returned
                     ELSE /\ returned' = <<[audio_path |-> audio_path,
                                 text |-> full_text, ipa |-> r.ret,
                                 segments |-> segments,
                                 language |-> recognised_language,
                                 language_confidence |-> info[1].language_probability,
                                 duration |-> info[1].duration,
                                 model_size |-> model_size,
                                 ipa_language |-> ipa_code]>>
                          /\ pc' = "done"
                          /\ UNCHANGED raised
    /\ UNCHANGED <<argvars, model_inits, transcribe_calls, pulls, produced, exhausted,
                   localvars, fnvars>>

\* --------------------------------------------- the helpers called directly
\* Instead of a transcription, one direct call of a helper on an argument of
\* the bounded input sets.
ResolveCall ==
    /\ pc = "idle"
    /\ \E hint \in Hints :
          /\ fn_arg' = hint
          /\ fn_ret' = _resolve_espeak_language(hint)
    /\ pc' = "resolved"
    /\ UNCHANGED <<argvars, spyvars, localvars, outvars, fn_lang, fn_raised, fn_calls>>

PhonemizeCall ==
    /\ pc = "idle"
    /\ \E text \in Texts, code \in IpaCodes, outcome \in BackendOutcomes :
          LET r == _phonemize_text(text, code, outcome, <<>>)
          IN  /\ fn_arg' = text
              /\ fn_lang' = code
              /\ fn_ret' = r.ret
              /\ fn_raised' = r.raised
              /\ fn_calls' = r.calls
    /\ pc' = "phonemized"
    /\ UNCHANGED <<argvars, spyvars, localvars, outvars>>

Next ==
    \/ Enter \/ LoadModel \/ Transcribe \/ NextSegment \/ LoopBody \/ Finish
    \/ ResolveCall \/ PhonemizeCall

Spec == Init /\ [][Next]_vars

\* ================================================================ claims
EnUs == <<"e", "n", "-", "u", "s">>
Min(S) == CHOOSE x \in S : \A y \in S : x <= y
Max(S) == CHOOSE x \in S : \A y \in S : x >= y

\* C1: a call with a missing audio path ends in a not-found error that names
\* the path, with no recognizer instantiation, no transcribe invocation and
\* no backend invocation, whatever the other options are.
C1_MissingPathFailsFast ==
    (pc \notin {"idle", "resolved", "phonemized"} /\ ~path_exists) =>
        /\ pc = "failed"
        /\ Len(raised) = 1
        /\ raised[1].type = "FileNotFoundError"
        /\ raised[1].names = audio_path
        /\ model_inits = <<>>
        /\ transcribe_calls = <<>>
        /\ backend_calls = <<>>
        /\ pulls = 0
        /\ returned = <<>>

C1_Witness ==
    /\ pc = "failed" /\ ~path_exists
    /\ raised[1].type = "FileNotFoundError"
    /\ language = <<"p", "t">> /\ ipa_language = <<"P", "T", "_", "x">>
    /\ device = <<"cuda">> /\ compute_type = <<"float16">> /\ ~vad_filter

\* The claim's normal form of a hint: lowercase, trimmed, "_" turned into "-".
ClaimNormal(h) ==
    LET lo == [i \in 1..Len(h) |-> LowerChar(h[i])]
        solid == {i \in 1..Len(h) : lo[i] \notin Whitespace}
    IN  IF solid = {} THEN <<>>
        ELSE [i \in 1..(Max(solid) - Min(solid) + 1) |->
                 LET c == lo[Min(solid) + i - 1] IN IF c = "_" THEN "-" ELSE c]

\* A text without its leading and trailing whitespace.
ClaimNormalText(t) ==
    LET solid == {i \in 1..Len(t) : t[i] \notin Whitespace}
    IN  IF solid = {} THEN <<>>
        ELSE [i \in 1..(Max(solid) - Min(solid) + 1) |-> t[Min(solid) + i - 1]]

\* The part of n before its first hyphen.
ClaimBase(n) ==
    LET hy == {i \in 1..Len(n) : n[i] = "-"}
    IN  [i \in 1..(Min(hy) - 1) |-> n[i]]

\* C2: the resolver returns "en-us" for an absent or empty hint or one empty
\* after normalisation; else the table value of the normalised code; else,
\* with a hyphen and a base subtag in the table, the base's table value; else
\* the normalised code. The exact match wins over the base fallback
\* ("pt-pt" gives "pt").
C2_ResolverCases ==
    pc = "resolved" =>
        LET n == IF fn_arg = None THEN <<>> ELSE ClaimNormal(fn_arg)
            hyphen == \E i \in 1..Len(n) : n[i] = "-"
        IN  /\ n = <<>> => fn_ret = EnUs
            /\ (n # <<>> /\ n \in DOMAIN _ESPEAK_LANG_MAP) =>
                  fn_ret = _ESPEAK_LANG_MAP[n]
            /\ (n # <<>> /\ n \notin DOMAIN _ESPEAK_LANG_MAP /\ hyphen
                  /\ ClaimBase(n) \in DOMAIN _ESPEAK_LANG_MAP) =>
                  fn_ret = _ESPEAK_LANG_MAP[ClaimBase(n)]
            /\ (n # <<>> /\ n \notin DOMAIN _ESPEAK_LANG_MAP
                  /\ ~(hyphen /\ ClaimBase(n) \in DOMAIN _ESPEAK_LANG_MAP)) =>
                  fn_ret = n
            /\ n = <<"p", "t", "-", "p", "t">> => fn_ret = <<"p", "t">>

C2_Witness ==
    /\ pc = "resolved"
    /\ fn_arg = <<"P", "t", "_", "x">>
    /\ fn_ret = <<"p", "t", "-", "b", "r">>

\* C3 as stated: language is the caller's override whenever one is passed
\* (anything but None), else the detected language, else ""; ipa_language is
\* the caller's ipa_language verbatim whenever one is passed, else the
\* resolver's value for that language.
C3_AsStated ==
    returned # <<>> =>
        LET detected == info[1].language
            lang == IF language # None THEN language
                    ELSE IF detected # None THEN detected ELSE <<>>
        IN  /\ returned[1].language = lang
            /\ returned[1].ipa_language =
                  IF ipa_language # None THEN ipa_language
                  ELSE _resolve_espeak_language(lang)

\* C3 amended: the same with "a non-empty override": an override that is
\* None or "" counts as not given; likewise an empty detected language.
C3_LanguageAndIpaCode ==
    returned # <<>> =>
        LET detected == info[1].language
            lang == IF language # None /\ language # <<>> THEN language
                    ELSE IF detected # None /\ detected # <<>> THEN detected
                    ELSE <<>>
        IN  /\ returned[1].language = lang
            /\ returned[1].ipa_language =
                  IF ipa_language # None /\ ipa_language # <<>> THEN ipa_language
                  ELSE _resolve_espeak_language(lang)

\* A language override decides the IPA code against a different detection.
C3_Witness ==
    /\ returned # <<>>
    /\ language = <<"p", "t">> /\ ipa_language = None
    /\ info[1].language = <<"p", "t", "-", "p", "t">>
    /\ returned[1].language = <<"p", "t">>
    /\ returned[1].ipa_language = <<"p", "t", "-", "b", "r">>

\* The raw segments, of those yielded, whose text is not all whitespace.
ClaimKept(raws) ==
    SelectSeq(raws, LAMBDA raw : \E i \in 1..Len(raw.text) : raw.text[i] \notin Whitespace)

\* C4: the result's segments are exactly the raw segments with a non-empty
\* trimmed text, in order, each with the trimmed text and the raw start and
\* end; the other raw segments add nothing to the segments or the text parts.
C4_SegmentsAreKeptRaws ==
    returned # <<>> =>
        LET kept == ClaimKept(produced)
            segs == returned[1].segments
        IN  /\ Len(segs) = Len(kept)
            /\ \A i \in 1..Len(segs) :
                  /\ segs[i].text = ClaimNormalText(kept[i].text)
                  /\ segs[i].text # <<>>
                  /\ segs[i].start = kept[i].start
                  /\ segs[i].end = kept[i].end
            /\ Len(full_text_parts) = Len(kept)
            /\ \A i \in 1..Len(kept) : full_text_parts[i] = ClaimNormalText(kept[i].text)

C4_Witness ==
    /\ returned # <<>>
    /\ Len(produced) = 2
    /\ produced[1].text = <<" ">>
    /\ produced[2].text = <<" ", "a", " ">>
    /\ Len(returned[1].segments) = 1
    /\ returned[1].segments[1].text = <<"a">>
    /\ returned[1].segments[1].start = 2 /\ returned[1].segments[1].end = 4

RECURSIVE ClaimJoinSpaced(_)
\* The texts joined by single spaces, built from the right.
ClaimJoinSpaced(texts) ==
    IF texts = <<>> THEN <<>>
    ELSE IF Len(texts) = 1 THEN texts[1]
    ELSE ClaimJoinSpaced(SubSeq(texts, 1, Len(texts) - 1)) \o <<" ">> \o texts[Len(texts)]

\* C5: the result's text is the texts of its segments, in order, joined by
\* single spaces; it is empty exactly when there are no segments.
C5_TextIsJoinOfSegments ==
    returned # <<>> =>
        LET segs == returned[1].segments
            texts == [i \in 1..Len(segs) |-> segs[i].text]
        IN  /\ returned[1].text = ClaimJoinSpaced(texts)
            /\ (returned[1].text = <<>>) <=> (segs = <<>>)
            /\ Len(full_text_parts) = Len(segs)

C5_Witness ==
    /\ returned # <<>>
    /\ Len(returned[1].segments) = 2
    /\ returned[1].text = <<"a", " ", "b", " ", "c">>

\* The last raw segment yielded has a text that is not all whitespace.
ClaimLastKept ==
    /\ produced # <<>>
    /\ \E i \in 1..Len(produced[Len(produced)].text) :
          produced[Len(produced)].text[i] \notin Whitespace

\* C6: a backend failure during a transcription ends the call with a
\* phonemization error naming the IPA code and keeping the failure as its
\* cause; no result is returned, the failed call is the last backend call (no
\* retry, no later call), and no raw segment is pulled after it.
C6_BackendFailureAborts ==
    \A i \in 1..Len(backend_calls) :
        ~backend_calls[i].ok =>
            /\ i = Len(backend_calls)
            /\ pc = "failed"
            /\ returned = <<>>
            /\ raised = <<[type |-> "RuntimeError", names |-> ipa_code,
                           cause |-> "RuntimeError"]>>
            /\ backend_calls[i].language = ipa_code
            /\ IF exhausted
               THEN /\ i = Len(ClaimKept(produced)) + 1
                    /\ pulls = Len(produced) + 1
               ELSE /\ i = Len(ClaimKept(produced))
                    /\ ClaimLastKept
                    /\ backend_calls[i].text =
                          ClaimNormalText(produced[Len(produced)].text)
                    /\ pulls = Len(produced)

\* A failure on the second segment, after a first one went through.
C6_Witness ==
    /\ pc = "failed"
    /\ Len(backend_calls) = 2
    /\ backend_calls[1].ok /\ ~backend_calls[2].ok
    /\ ~exhausted /\ Len(produced) = 2 /\ Len(segments) = 1
    /\ raised[1].type = "RuntimeError"

\* C7: _phonemize_text returns "" without a backend invocation for a text
\* that is empty or all whitespace, for every code; and a transcription whose
\* raw segments all have such texts makes no backend invocation, cannot fail
\* in phonemization, and returns no segments, text "" and ipa "".
C7_BlankTextSkipsBackend ==
    /\ (pc = "phonemized" /\ \A i \in 1..Len(fn_arg) : fn_arg[i] \in Whitespace) =>
          /\ fn_ret = <<>>
          /\ fn_calls = <<>>
          /\ ~fn_raised
    /\ (pc \in {"loop", "body", "join", "done", "failed"} /\ ClaimKept(produced) = <<>>) =>
          /\ backend_calls = <<>>
          /\ segments = <<>>
          /\ \A i \in 1..Len(raised) : raised[i].type # "RuntimeError"
    /\ (returned # <<>> /\ ClaimKept(produced) = <<>>) =>
          /\ returned[1].segments = <<>>
          /\ returned[1].text = <<>>
          /\ returned[1].ipa = <<>>

C7_Witness ==
    /\ pc = "done"
    /\ Len(produced) = 2
    /\ \A i \in 1..2 : produced[i].text \in {<<>>, <<" ">>}
    /\ backend_calls = <<>>
    /\ returned[1].text = <<>> /\ returned[1].ipa = <<>>

\* C8: a returned result with n >= 1 segments comes with exactly n + 1
\* backend invocations, one per segment with its text and then one with the
\* whole text, all with the result's IPA code, and ipa is what the last one
\* returned; with n = 0 there is no invocation and ipa is "".
C8_FullIpaIsOwnPhonemization ==
    returned # <<>> =>
        LET r == returned[1]
            n == Len(r.segments)
        IN  IF n = 0
            THEN backend_calls = <<>> /\ r.ipa = <<>>
            ELSE /\ Len(backend_calls) = n + 1
                 /\ \A i \in 1..n :
                       /\ backend_calls[i].text = r.segments[i].text
                       /\ backend_calls[i].out = r.segments[i].ipa
                 /\ backend_calls[n + 1].text = r.text
                 /\ backend_calls[n + 1].out = r.ipa
                 /\ \A i \in 1..(n + 1) :
                       backend_calls[i].ok /\ backend_calls[i].language = r.ipa_language

\* The whole-text ipa differs from the join of the segments' ipa.
C8_Witness ==
    /\ returned # <<>>
    /\ Len(returned[1].segments) = 2
    /\ returned[1].segments[1].ipa = <<"i">>
    /\ returned[1].segments[2].ipa = <<"i">>
    /\ returned[1].ipa = <<"j">>
    /\ Len(backend_calls) = 3

\* C9: the resolver never returns "", a returned ipa_language is non-empty
\* and is the caller's ipa_language verbatim or the resolver's value, and
\* every backend invocation of the run gets that code.
C9_IpaCodeNeverEmpty ==
    /\ pc = "resolved" => (fn_ret # <<>> /\ fn_ret # None)
    /\ pc \in {"loop", "body", "join", "done"} => (ipa_code # <<>> /\ ipa_code # None)
    /\ \A i \in 1..Len(backend_calls) :
          backend_calls[i].language = ipa_code /\ backend_calls[i].language # <<>>
    /\ returned # <<>> =>
          /\ returned[1].ipa_language # <<>>
          /\ returned[1].ipa_language # None
          /\ returned[1].ipa_language = ipa_code
          /\ \/ returned[1].ipa_language = ipa_language
             \/ returned[1].ipa_language = _resolve_espeak_language(returned[1].language)

\* An empty ipa_language override and a detected language of blanks and an
\* underscore: the code used is the resolver's "-".
C9_Witness ==
    /\ returned # <<>>
    /\ ipa_language = <<>> /\ language = None
    /\ info[1].language = <<" ", "_">>
    /\ returned[1].ipa_language = <<"-">>
    /\ Len(backend_calls) = 2

\* The order of pulls and phonemizations in one run.
C10_Order ==
    LET kept == ClaimKept(produced)
        k == Len(kept)
        done == Len(backend_calls)
    IN  /\ pc \in {"loop", "body", "join", "done"} =>
              pulls = Len(produced) + (IF exhausted THEN 1 ELSE 0)
        /\ pulls > 0 => (ipa_code # None /\ Len(transcribe_calls) = 1)
        /\ segment # <<>> => segment[1] = produced[Len(produced)]
        /\ pc = "loop" => done = k
        /\ pc = "body" => done = k - (IF ClaimLastKept THEN 1 ELSE 0)
        /\ ~exhausted => done <= k
        /\ \A i \in 1..done :
              /\ i <= k => backend_calls[i].text = ClaimNormalText(kept[i].text)
              /\ i > k => (exhausted /\ i = k + 1)
        /\ pc = "done" => exhausted

\* C10: the segment sequence is consumed in one forward pass: the IPA code is
\* settled before the first pull and never changes after it, segment i is
\* phonemized before segment i+1 is pulled, the whole text is phonemized only
\* after exhaustion, and a run that returns has exhausted the sequence.
C10_SingleForwardPass ==
    /\ []C10_Order
    /\ [][(pulls > 0 => ipa_code' = ipa_code)
          /\ pulls' >= pulls
          /\ (produced' = produced \/ \E raw \in RawSegments : produced' = Append(produced, raw))
          /\ (exhausted => (exhausted' /\ produced' = produced))]_vars

C10_Witness ==
    /\ pc = "done"
    /\ Len(produced) = 2 /\ pulls = 3 /\ exhausted
    /\ Len(backend_calls) = 3
====
